---- MODULE Spec2Model ----
(***************************************************************************)
(* Web3ApiClient (packages/js/client/src/Web3ApiClient.ts): the per-client *)
(* implementation cache, loadWeb3Api, invoke and query, as a state machine *)
(* whose steps are the stretches of code between two awaits.               *)
(*                                                                         *)
(* The collaborators imported from @web3api/core-js (Uri, resolveUri, the  *)
(* backends' invoke, createQueryDocument, parseQuery, sanitizeUriRedirects *)
(* and getDefaultRedirects) are not part of the client source; they are    *)
(* modelled from the design document.                                      *)
(***************************************************************************)
EXTENDS Integers, Sequences, FiniteSets, TLC

VARIABLES
  config,      \* client -> the redirects its constructor was given
  redirects,   \* client -> its redirect list (_config.redirects)
  apiCache,    \* client -> (uri string -> Api instance, 0 when absent)
  apis,        \* the Api instances the factories have built; an instance is
               \* known by the number of the call whose resolution built it
  tasks,       \* every call of invoke: its locals and where it is suspended
  queries,     \* every call of query: its locals and where it is suspended
  walk         \* one walk of the resolver, taken hop by hop

vars == <<config, redirects, apiCache, apis, tasks, queries, walk>>

(***************************************************************************)
(* Bounds                                                                  *)
(***************************************************************************)
MaxCalls   == 3    \* calls of invoke in one behaviour, nested ones included
MaxCallers == 2    \* of which calls made by the client's callers
MaxQueries == 1    \* calls of query in one behaviour
MaxRules   == 3    \* length of the redirect tables the resolver walks
MaxUserRules == 2  \* length of the redirect lists given to a constructor

(***************************************************************************)
(* Values                                                                  *)
(***************************************************************************)
None == "absent"                      \* undefined
Clients == {"c1", "c2"}
Uris == {"A", "B", "C", "D"}          \* normalized Uri strings
RawUris == Uris \cup {""}             \* what a caller may pass as uri
Factories == {"plugin", "wasm"}       \* a rule's `to` that is not a Uri

Rule(from, to) == [from |-> from, to |-> to]

\* The redirects the clients are constructed with.
\* c1: the chain A -> B -> C -> (plugin factory); D has no rule.
\* c2: the cycle A -> B -> A; C -> (wasm factory); D has no rule.
ChainTable == <<Rule("A", "B"), Rule("B", "C"), Rule("C", "plugin")>>
CycleTable == <<Rule("A", "B"), Rule("B", "A"), Rule("C", "wasm")>>
ClientConfig == [c \in Clients |-> IF c = "c1" THEN ChainTable ELSE CycleTable]

\* sanitizeUriRedirects: a rule whose `from` an earlier rule already has is
\* dropped, the order of the others is kept.
RECURSIVE dedupe(_, _, _)
dedupe(input, k, output) ==
  IF k > Len(input) THEN output
  ELSE dedupe(input, k + 1,
              IF \E e \in 1..Len(output) : output[e].from = input[k].from
                THEN output ELSE Append(output, input[k]))

sanitizeUriRedirects(input) == dedupe(input, 1, <<>>)

\* getDefaultRedirects: C is the well-known uri of a bundled plugin.
getDefaultRedirects == <<Rule("C", "plugin")>>

\* The constructor with the default redirects put in front.
constructorDefaultsFirst(userRedirects) ==
  getDefaultRedirects \o sanitizeUriRedirects(userRedirects)

\* redirects: sanitizeUriRedirects(config.redirects), then
\* this._config.redirects.push(...getDefaultRedirects())
constructor(userRedirects) ==
  sanitizeUriRedirects(userRedirects) \o getDefaultRedirects

\* An Error object: every throw builds a new one, so it is told apart by
\* the call that raised it. NoError stands for an undefined error.
Err(name, call) == [name |-> name, call |-> call]
NoError == Err(None, 0)

\* The data a backend returns is known by the call it answers; NoData stands
\* for undefined data.
Data(call) == [call |-> call]
NoData == Data(0)

\* An InvokeApiResult; NoResult fills the place of one that does not exist
\* yet (pc tells whether the call has completed).
InvokeResult(data, error) == [data |-> data, error |-> error]
NoResult == InvokeResult(NoData, NoError)

(***************************************************************************)
(* Uri: new Uri(raw) normalizes, and throws on a malformed string.         *)
(***************************************************************************)
ParseUri(raw) ==
  IF raw = "" THEN [ok |-> FALSE, uri |-> None]
  ELSE [ok |-> TRUE, uri |-> raw]

(***************************************************************************)
(* The resolver: one step of the walk through the redirect table.          *)
(***************************************************************************)
RECURSIVE FirstMatch(_, _, _)
FirstMatch(table, uri, i) ==
  IF i > Len(table) THEN 0
  ELSE IF table[i].from = uri THEN i
  ELSE FirstMatch(table, uri, i + 1)

StartWalk(table, uri) ==
  [table |-> table, input |-> uri, cur |-> uri, visited |-> {uri},
   hops |-> 0, status |-> "walking", kind |-> None, err |-> None]

\* ResolveStep without the visited set.
ResolveStepNoVisited(w) ==
  LET m == FirstMatch(w.table, w.cur, 1) IN
  IF m = 0
    THEN [w EXCEPT !.status = "error", !.err = "UnresolvedUriError"]
  ELSE IF w.table[m].to \in Factories
    THEN [w EXCEPT !.status = "impl", !.kind = w.table[m].to]
  ELSE [w EXCEPT !.cur = w.table[m].to,
                 !.visited = @ \cup {w.table[m].to},
                 !.hops = @ + 1]

ResolveStep(w) ==
  LET m == FirstMatch(w.table, w.cur, 1) IN
  IF m = 0
    THEN [w EXCEPT !.status = "error", !.err = "UnresolvedUriError"]
  ELSE IF w.table[m].to \in Factories
    THEN [w EXCEPT !.status = "impl", !.kind = w.table[m].to]
  ELSE IF w.table[m].to \in w.visited
    THEN [w EXCEPT !.status = "error", !.err = "RedirectCycleError"]
  ELSE [w EXCEPT !.cur = w.table[m].to,
                 !.visited = @ \cup {w.table[m].to},
                 !.hops = @ + 1]

RECURSIVE Walk(_)
Walk(w) == IF w.status # "walking" THEN w ELSE Walk(ResolveStep(w))

resolveUri(table, uri) == Walk(StartWalk(table, uri))

(***************************************************************************)
(* invoke                                                                  *)
(***************************************************************************)
NewTask(id, c, method, parent, query) ==
  [id |-> id, client |-> c, method |-> method,
   parent |-> parent,       \* the invoke whose backend issued this call, or 0
   query |-> query,         \* the query that issued this call, or 0
   uri |-> None,            \* uri.uri once new Uri(options.uri) has run
   pc |-> "start",
   api |-> 0,               \* the Api instance loadWeb3Api returned
   ctx |-> None,            \* the client handed to api.invoke
   sub |-> 0,               \* the sub-invocation the backend is waiting for
   subResult |-> NoResult,  \* what that sub-invocation handed back
   raised |-> NoError,      \* the failure thrown inside the try block
   result |-> NoResult]     \* the InvokeApiResult the call completed with

Throw(t, error) == [t EXCEPT !.raised = error]

\* invoke without its catch block: the failure leaves invoke.
invokeCatchRethrows(t) == [t EXCEPT !.pc = "threw"]

\* catch (error) { return { error: error }; }
invokeCatch(t) ==
  [t EXCEPT !.pc = "done", !.result = InvokeResult(NoData, t.raised)]

\* api.invoke handed a client other than `this`.
apiInvokeOtherClient(t, api) ==
  [t EXCEPT !.api = api, !.pc = "invoking",
            !.ctx = CHOOSE c \in Clients : c # t.client]

\* api.invoke({...options, uri}, this)
apiInvoke(t, api) ==
  [t EXCEPT !.api = api, !.ctx = t.client, !.pc = "invoking"]

\* invoke whose loadWeb3Api never looks into the cache.
invokeStartNoCache(id, c, raw, method, parent, query, cache) ==
  LET t == NewTask(id, c, method, parent, query)
      p == ParseUri(raw)
  IN IF ~p.ok THEN invokeCatch(Throw(t, Err("InvalidUriError", id)))
     ELSE [t EXCEPT !.uri = p.uri, !.pc = "resolving"]

\* invoke up to its first await: new Uri, then loadWeb3Api up to
\* `await resolveUri`, or through to api.invoke on a cache hit.
invokeStart(id, c, raw, method, parent, query, cache) ==
  LET t == NewTask(id, c, method, parent, query)
      p == ParseUri(raw)
  IN IF ~p.ok THEN invokeCatch(Throw(t, Err("InvalidUriError", id)))
     ELSE IF cache[c][p.uri] # 0
       THEN apiInvoke([t EXCEPT !.uri = p.uri], cache[c][p.uri])
     ELSE [t EXCEPT !.uri = p.uri, !.pc = "resolving"]

TaskIds == 1..Len(tasks)

\* A caller invokes a method on client c.
invoke(c, raw, method) ==
  /\ Len(tasks) < MaxCalls
  /\ Cardinality({i \in TaskIds : tasks[i].parent = 0}) < MaxCallers
  /\ tasks' = Append(tasks,
                invokeStart(Len(tasks) + 1, c, raw, method, 0, 0, apiCache))
  /\ UNCHANGED <<config, redirects, apiCache, apis, queries, walk>>

\* .then((result) => ({ method: invocation.method, result })): the slot of
\* Promise.all that belongs to this invocation is filled when it completes.
\* outOfOrder remembers that a slot was filled before an earlier one.
SlotOf(q, id) == CHOOSE k \in 1..Len(q.children) : q.children[k] = id

thenCollect(qs, t) ==
  IF t.query = 0 \/ t.pc # "done" THEN qs
  ELSE LET q == qs[t.query]
           k == SlotOf(q, t.id)
       IN [qs EXCEPT ![t.query] =
             [q EXCEPT !.invocations[k] =
                         [settled |-> TRUE, method |-> t.method, result |-> t.result],
                       !.outOfOrder =
                         @ \/ \E j \in 1..(k - 1) : ~q.invocations[j].settled]]

\* The backend's invoke completes: it returns { data }, returns { error },
\* or throws; invoke returns the backend's result as it is.
BackendOutcomes == {"data", "error", "throw"}

\* invoke that hands on the data of the backend's result alone.
apiInvokeReturnDataOnly(t, outcome) ==
  IF outcome = "throw" THEN invokeCatch(Throw(t, Err("ModuleTrapError", t.id)))
  ELSE [t EXCEPT !.pc = "done",
                 !.result = IF outcome = "data"
                            THEN InvokeResult(Data(t.id), NoError)
                            ELSE NoResult]

\* return (await api.invoke({...options, uri}, this))
apiInvokeReturn(t, outcome) ==
  IF outcome = "throw" THEN invokeCatch(Throw(t, Err("ModuleTrapError", t.id)))
  ELSE [t EXCEPT !.pc = "done",
                 !.result = IF outcome = "data"
                            THEN InvokeResult(Data(t.id), NoError)
                            ELSE InvokeResult(NoData, Err("MethodNotFoundError", t.id))]

\* loadWeb3Api that takes whatever the resolver left for an Api.
resolveFailureIgnored(r) == None

\* What `await resolveUri(...)` and `if (!api) throw Error(...)` let through:
\* the failure to throw, or None when an Api came back.
resolveFailure(r) ==
  IF r.status = "error" THEN r.err
  ELSE IF r.kind = None THEN "UnresolvedUriError"
  ELSE None

\* A cache that all clients share.
cacheSetShared(cache, c, uri, api) ==
  [d \in Clients |-> [cache[d] EXCEPT ![uri] = api]]

\* this._apiCache.set(uri.uri, api)
cacheSet(cache, c, uri, api) == [cache EXCEPT ![c][uri] = api]

\* loadWeb3Api that writes the cache before it looks at what came back.
cacheAfterLoadAlways(cache, t, failure) == cacheSet(cache, t.client, t.uri, t.id)

\* The cache after `await resolveUri`: a failure, thrown by the resolver or
\* by `if (!api) throw`, leaves loadWeb3Api before the cache is written.
cacheAfterLoad(cache, t, failure) ==
  IF failure # None THEN cache ELSE cacheSet(cache, t.client, t.uri, t.id)

\* loadWeb3Api that also records the route it resolved as a redirect.
loadWeb3ApiRecordsRoute(i) ==
  LET t == tasks[i]
      r == resolveUri(redirects[t.client], t.uri)
      failure == resolveFailure(r)
      failed == invokeCatch(Throw(t, Err(failure, i)))
  IN /\ t.pc = "resolving"
     /\ apiCache' = cacheAfterLoad(apiCache, t, failure)
     /\ IF failure # None
          THEN /\ tasks' = [tasks EXCEPT ![i] = failed]
               /\ queries' = thenCollect(queries, failed)
               /\ UNCHANGED <<apis, redirects>>
        ELSE /\ apis' = apis \cup {[id |-> i, client |-> t.client, uri |-> t.uri,
                                    at |-> r.cur, kind |-> r.kind]}
             /\ redirects' = [redirects EXCEPT ![t.client] =
                                Append(@, Rule(t.uri, r.kind))]
             /\ tasks' = [tasks EXCEPT ![i] = apiInvoke(t, i)]
             /\ UNCHANGED queries
     /\ UNCHANGED <<config, walk>>

\* loadWeb3Api after `await resolveUri`, and invoke after `await loadWeb3Api`.
loadWeb3Api(i) ==
  LET t == tasks[i]
      r == resolveUri(redirects[t.client], t.uri)
      failure == resolveFailure(r)
      failed == invokeCatch(Throw(t, Err(failure, i)))
  IN /\ t.pc = "resolving"
     /\ apiCache' = cacheAfterLoad(apiCache, t, failure)
     /\ IF failure # None
          THEN /\ tasks' = [tasks EXCEPT ![i] = failed]
               /\ queries' = thenCollect(queries, failed)
               /\ UNCHANGED apis
        ELSE /\ apis' = apis \cup {[id |-> i, client |-> t.client, uri |-> t.uri,
                                    at |-> r.cur, kind |-> r.kind]}
             /\ tasks' = [tasks EXCEPT ![i] = apiInvoke(t, i)]
             /\ UNCHANGED queries
     /\ UNCHANGED <<config, redirects, walk>>

\* The backend finishes the method.
backendReturn(i, outcome) ==
  LET t == apiInvokeReturn(tasks[i], outcome) IN
  /\ tasks[i].pc = "invoking"
  /\ tasks' = [tasks EXCEPT ![i] = t]
  /\ queries' = thenCollect(queries, t)
  /\ UNCHANGED <<config, redirects, apiCache, apis, walk>>

\* The backend, while executing, issues a sub-invocation through the client
\* it was given, and is suspended until that invoke completes.
subInvoke(i, raw) ==
  LET t == tasks[i]
      id == Len(tasks) + 1
  IN /\ t.pc = "invoking"
     /\ t.sub = 0
     /\ Len(tasks) < MaxCalls
     /\ tasks' = Append([tasks EXCEPT ![i] = [t EXCEPT !.pc = "subcall", !.sub = id]],
                        invokeStart(id, t.ctx, raw, "foo", i, 0, apiCache))
     /\ UNCHANGED <<config, redirects, apiCache, apis, queries, walk>>

\* The nested invoke has completed: its result is handed to the backend.
subInvokeReturn(i) ==
  LET t == tasks[i] IN
  /\ t.pc = "subcall"
  /\ tasks[t.sub].pc = "done"
  /\ tasks' = [tasks EXCEPT ![i] =
                 [t EXCEPT !.pc = "invoking", !.subResult = tasks[t.sub].result]]
  /\ UNCHANGED <<config, redirects, apiCache, apis, queries, walk>>

(***************************************************************************)
(* query                                                                   *)
(***************************************************************************)
\* A query document is the list of its top-level field names, or Malformed,
\* which createQueryDocument rejects.
Doc(fields) == [ok |-> TRUE, fields |-> fields]
Malformed == [ok |-> FALSE, fields |-> <<>>]
QueryDocs == {Doc(<<"foo", "foo", "bar">>), Doc(<<"foo", "foo", "foo_1">>),
              Doc(<<"bar", "foo">>), Malformed}

\* A QueryApiResult: data and errors are each present or undefined.
QueryResult(hasData, data, hasErrors, errors) ==
  [hasData |-> hasData, data |-> data, hasErrors |-> hasErrors, errors |-> errors]
NoQueryResult == QueryResult(FALSE, <<>>, FALSE, <<>>)

\* parseQuery: one invocation per top-level field, in document order, each of
\* the field's method on the query's uri.
parseQuery(uri, doc) ==
  [k \in 1..Len(doc.fields) |-> [uri |-> uri, method |-> doc.fields[k]]]

\* The suffix off by one: `${name}_${count}`.
uniqNameCount(name, count) ==
  IF count > 1 THEN name \o "_" \o ToString(count) ELSE name

\* count > 1 ? `${name}_${count - 1}` : name
uniqName(name, count) ==
  IF count > 1 THEN name \o "_" \o ToString(count - 1) ELSE name

\* names.reduce(...) with the counts object
RECURSIVE reduceNames(_, _, _, _)
reduceNames(names, i, counts, acc) ==
  IF i > Len(names) THEN acc
  ELSE LET name == names[i]
           count == (IF name \in DOMAIN counts THEN counts[name] ELSE 0) + 1
       IN reduceNames(names, i + 1,
                      [n \in DOMAIN counts \cup {name} |->
                         IF n = name THEN count ELSE counts[n]],
                      Append(acc, uniqName(name, count)))

makeRepeatedUnique(names) == reduceNames(names, 1, [n \in {} |-> 0], <<>>)

\* A Record<string, unknown> is a list of entries in insertion order;
\* obj[key] = value replaces the value of a key the object already has.
HasKey(obj, key) == \E e \in 1..Len(obj) : obj[e].key = key

ObjSet(obj, key, value) ==
  IF HasKey(obj, key)
    THEN [e \in 1..Len(obj) |->
            IF obj[e].key = key THEN [key |-> key, value |-> value] ELSE obj[e]]
  ELSE Append(obj, [key |-> key, value |-> value])

ObjGet(obj, key) ==
  IF HasKey(obj, key)
    THEN obj[CHOOSE e \in 1..Len(obj) : obj[e].key = key].value
  ELSE NoData

\* for (let i = 0; i < methods.length; ++i) data[methods[i]] = resultDatas[i]
RECURSIVE buildData(_, _, _, _)
buildData(methods, resultDatas, i, data) ==
  IF i > Len(methods) THEN data
  ELSE buildData(methods, resultDatas, i + 1,
                 ObjSet(data, methods[i], resultDatas[i]))

\* errors.push(invocation.result.error) for every invocation that has one
RECURSIVE collectErrors(_, _)
collectErrors(invocations, i) ==
  IF i > Len(invocations) THEN <<>>
  ELSE (IF invocations[i].result.error # NoError
          THEN <<invocations[i].result.error>> ELSE <<>>)
       \o collectErrors(invocations, i + 1)

NewQuery(id) ==
  [id |-> id,
   pc |-> "start",
   children |-> <<>>,       \* the calls of invoke it issued, in request order
   invocations |-> <<>>,    \* what Promise.all has collected, by slot
   outOfOrder |-> FALSE,    \* a slot was filled before an earlier one
   methods |-> <<>>,        \* the keys given to the requests
   raised |-> NoError,
   result |-> NoQueryResult]

\* query without its catch block: the failure leaves query.
queryCatchRethrows(q, error) == [q EXCEPT !.pc = "threw", !.raised = error]

\* catch (error) { return { errors: [error] }; }
queryCatch(q, error) ==
  [q EXCEPT !.pc = "done", !.raised = error,
            !.result = QueryResult(FALSE, <<>>, TRUE, <<error>>)]

QueryIds == 1..Len(queries)

\* query up to `await Promise.all`: every invocation is started.
query(c, raw, doc) ==
  LET id == Len(queries) + 1
      q == NewQuery(id)
      p == ParseUri(raw)
      first == Len(tasks)
  IN /\ Len(queries) < MaxQueries
     /\ IF ~doc.ok
          THEN /\ queries' = Append(queries, queryCatch(q, Err("QuerySyntaxError", 0)))
               /\ UNCHANGED tasks
        ELSE IF ~p.ok
          THEN /\ queries' = Append(queries, queryCatch(q, Err("InvalidUriError", 0)))
               /\ UNCHANGED tasks
        ELSE LET invokeOptions == parseQuery(p.uri, doc)
                 n == Len(invokeOptions)
             IN /\ first + n <= MaxCalls
                /\ tasks' = tasks \o
                     [k \in 1..n |->
                        invokeStart(first + k, c, invokeOptions[k].uri,
                                    invokeOptions[k].method, 0, id, apiCache)]
                /\ queries' = Append(queries,
                     [q EXCEPT !.pc = "waiting",
                               !.children = [k \in 1..n |-> first + k],
                               !.invocations = [k \in 1..n |->
                                  [settled |-> FALSE, method |-> None,
                                   result |-> NoResult]]])
     /\ UNCHANGED <<config, redirects, apiCache, apis, walk>>

\* query that aggregates as soon as one invocation has completed.
queryAggregateAny(i) ==
  LET q == queries[i]
      n == Len(q.invocations)
      names == [k \in 1..n |-> q.invocations[k].method]
      resultDatas == [k \in 1..n |-> q.invocations[k].result.data]
      errors == collectErrors(q.invocations, 1)
      methods == makeRepeatedUnique(names)
      data == buildData(methods, resultDatas, 1, <<>>)
  IN /\ q.pc = "waiting"
     /\ \E k \in 1..n : q.invocations[k].settled
     /\ queries' = [queries EXCEPT ![i] =
          [q EXCEPT !.pc = "done", !.methods = methods,
                    !.result = QueryResult(TRUE, data, Len(errors) # 0, errors)]]
     /\ UNCHANGED <<config, redirects, apiCache, apis, tasks, walk>>

\* query after `await Promise.all`: aggregate the results.
queryAggregate(i) ==
  LET q == queries[i]
      n == Len(q.invocations)
      names == [k \in 1..n |-> q.invocations[k].method]
      resultDatas == [k \in 1..n |-> q.invocations[k].result.data]
      errors == collectErrors(q.invocations, 1)
      methods == makeRepeatedUnique(names)
      data == buildData(methods, resultDatas, 1, <<>>)
  IN /\ q.pc = "waiting"
     /\ \A k \in 1..n : q.invocations[k].settled
     /\ queries' = [queries EXCEPT ![i] =
          [q EXCEPT !.pc = "done", !.methods = methods,
                    !.result = QueryResult(TRUE, data, Len(errors) # 0, errors)]]
     /\ UNCHANGED <<config, redirects, apiCache, apis, tasks, walk>>

\* The clients as their constructors leave them.
Constructed ==
  /\ redirects = [c \in Clients |-> constructor(config[c])]
  /\ apiCache = [c \in Clients |-> [u \in Uris |-> 0]]
  /\ apis = {}
  /\ tasks = <<>>
  /\ queries = <<>>

Init ==
  /\ config = ClientConfig
  /\ Constructed
  /\ walk = StartWalk(<<>>, "A")

\* What the callers ask for: every kind of uri on c1 (the chain's three entry
\* points, the uri without a rule, a malformed one), and on c2 the cycle and
\* the uri bound to the sandboxed-module factory. A backend's sub-invocation
\* asks for the uri bound to a factory (its own or another's), the uri
\* without a rule, or a malformed one.
InvokeRequests ==
  ({"c1"} \X RawUris) \cup {<<"c2", "A">>, <<"c2", "C">>}
QueryRequests ==
  {<<"c1", "A">>, <<"c1", "D">>, <<"c1", "">>, <<"c2", "C">>}
SubUris == {"C", "D", ""}

(***************************************************************************)
(* Spec: callers invoke methods, and backends issue sub-invocations.       *)
(***************************************************************************)
Next ==
  \/ \E r \in InvokeRequests : invoke(r[1], r[2], "foo")
  \/ \E i \in TaskIds : loadWeb3Api(i)
  \/ \E i \in TaskIds, o \in BackendOutcomes : backendReturn(i, o)
  \/ \E i \in TaskIds, raw \in SubUris : subInvoke(i, raw)
  \/ \E i \in TaskIds : subInvokeReturn(i)

Spec == Init /\ [][Next]_vars

(***************************************************************************)
(* QuerySpec: callers submit query documents.                              *)
(***************************************************************************)
QueryNext ==
  \/ \E r \in QueryRequests, doc \in QueryDocs : query(r[1], r[2], doc)
  \/ \E i \in TaskIds : loadWeb3Api(i)
  \/ \E i \in TaskIds, o \in BackendOutcomes : backendReturn(i, o)
  \/ \E i \in QueryIds : queryAggregate(i)

QuerySpec == Init /\ [][QueryNext]_vars

(***************************************************************************)
(* ResolveSpec: one walk of the resolver, a step at a time, over every     *)
(* redirect table of at most MaxRules rules and every input Uri.           *)
(***************************************************************************)
WalkRules == {Rule(f, t) : f \in Uris, t \in Uris \cup {"plugin"}} \
             {Rule(u, u) : u \in Uris}
WalkTables == UNION {[1..n -> WalkRules] : n \in 0..MaxRules}

resolveHop ==
  /\ walk.status = "walking"
  /\ walk.hops <= Len(walk.table)
  /\ walk' = ResolveStep(walk)
  /\ UNCHANGED <<config, redirects, apiCache, apis, tasks, queries>>

ResolveInit ==
  /\ config = ClientConfig
  /\ Constructed
  /\ walk \in {StartWalk(table, uri) : table \in WalkTables, uri \in Uris}

ResolveNext == resolveHop

ResolveSpec == ResolveInit /\ [][ResolveNext]_vars

(***************************************************************************)
(* ConstructSpec: clients constructed with every redirect list of at most  *)
(* MaxUserRules rules, and the first call made on them.                    *)
(***************************************************************************)
UserRules == {Rule(f, t) : f \in {"A", "C"}, t \in {"B", "wasm"}}
UserLists == UNION {[1..n -> UserRules] : n \in 0..MaxUserRules}

ConstructInit ==
  /\ config \in [Clients -> UserLists]
  /\ Constructed
  /\ walk = StartWalk(<<>>, "A")

ConstructNext ==
  \/ \E c \in Clients, raw \in Uris : tasks = <<>> /\ invoke(c, raw, "foo")
  \/ \E i \in TaskIds : loadWeb3Api(i)

ConstructSpec == ConstructInit /\ [][ConstructNext]_vars

(***************************************************************************)
(* The claims                                                              *)
(***************************************************************************)
Done(i) == tasks[i].pc = "done"
NoRule(c, uri) == \A k \in 1..Len(redirects[c]) : redirects[c][k].from # uri

\* C1: invoke never raises past its boundary. Whatever fails inside it (the
\* Uri constructor, the resolution in loadWeb3Api, the backend's invoke), the
\* call completes with a result whose error is that failure and whose data is
\* absent; no call ends by throwing.
InvokeNeverRaises ==
  \A i \in TaskIds :
    /\ tasks[i].pc # "threw"
    /\ tasks[i].raised # NoError =>
         /\ Done(i)
         /\ tasks[i].result = InvokeResult(NoData, tasks[i].raised)

\* A failure of each kind has been caught: a malformed uri, a failed
\* resolution and a backend that threw.
InvokeNeverRaisesWitness ==
  \E i, j, k \in TaskIds :
    /\ tasks[i].raised.name = "InvalidUriError" /\ Done(i)
    /\ tasks[j].raised.name \in {"UnresolvedUriError", "RedirectCycleError"}
    /\ Done(j)
    /\ tasks[k].raised.name = "ModuleTrapError" /\ Done(k)
    /\ tasks[k].result.error = tasks[k].raised

\* C2: concurrent loads of one uncached Uri on one client share a single
\* resolution: no two calls are inside the resolver for the same Uri of the
\* same client at once.
SingleResolutionInFlight ==
  \A i, j \in TaskIds :
    (/\ tasks[i].pc = "resolving" /\ tasks[j].pc = "resolving"
     /\ tasks[i].client = tasks[j].client
     /\ tasks[i].uri = tasks[j].uri) => i = j

\* C3: on one client a Uri has one implementation instance. Any two calls of
\* the same Uri that resolved were dispatched to the same instance, and the
\* cache entry of the Uri was never replaced: every instance ever built for
\* the Uri is the cached one.
OneInstancePerUri ==
  /\ \A i, j \in TaskIds :
       (/\ tasks[i].api # 0 /\ tasks[j].api # 0
        /\ tasks[i].client = tasks[j].client
        /\ tasks[i].uri = tasks[j].uri) => tasks[i].api = tasks[j].api
  /\ \A a \in apis : apiCache[a.client][a.uri] = a.id

\* C4: for the chain A -> B -> C -> (factory) of client c1, once a first
\* resolution through one of the entry points A, B, C has built the instance,
\* every later load of A, B or C yields that instance, and the factory bound
\* to C is instantiated at most once.
ChainEntryPoints == {"A", "B", "C"}
ChainInstances == {a.id : a \in {b \in apis : b.client = "c1" /\ b.at = "C"}}

ChainSharesOneInstance ==
  [][/\ \A i \in (Len(tasks) + 1)..Len(tasks') :
          (/\ tasks'[i].client = "c1"
           /\ tasks'[i].uri \in ChainEntryPoints
           /\ ChainInstances # {}) => tasks'[i].api \in ChainInstances
     /\ Cardinality(ChainInstances') <= 1]_vars

\* C5: the keys of a query follow the request list alone. The first request
\* of a method name keeps the bare name and the k-th request of the same name
\* gets name_(k-1), in whatever order the invocations completed; the fields
\* foo, foo, bar get the keys foo, foo_1, bar, and data lists them so.
Aggregated(q) == queries[q].pc = "done" /\ queries[q].result.hasData
Requests(q) == 1..Len(queries[q].children)
Requested(q) == [k \in Requests(q) |-> tasks[queries[q].children[k]].method]
Answer(q, k) == tasks[queries[q].children[k]].result
Occurrence(names, k) == Cardinality({j \in 1..k : names[j] = names[k]})
Keys(obj) == [e \in 1..Len(obj) |-> obj[e].key]

KeysFollowRequestOrder ==
  \A q \in QueryIds :
    Aggregated(q) =>
      /\ Len(queries[q].methods) = Len(queries[q].children)
      /\ \A k \in Requests(q) :
           queries[q].methods[k] =
             IF Occurrence(Requested(q), k) = 1 THEN Requested(q)[k]
             ELSE Requested(q)[k] \o "_" \o
                    ToString(Occurrence(Requested(q), k) - 1)
      /\ Requested(q) = <<"foo", "foo", "bar">> =>
           /\ queries[q].methods = <<"foo", "foo_1", "bar">>
           /\ Keys(queries[q].result.data) = <<"foo", "foo_1", "bar">>

\* foo, foo, bar all succeeded, and a later invocation completed before an
\* earlier one.
KeysFollowRequestOrderWitness ==
  \E q \in QueryIds :
    /\ Aggregated(q) /\ queries[q].outOfOrder
    /\ Requested(q) = <<"foo", "foo", "bar">>
    /\ ~queries[q].result.hasErrors
    /\ Keys(queries[q].result.data) = <<"foo", "foo_1", "bar">>

\* C6: the keys given to the requests of a query are pairwise distinct, so
\* data holds one entry per request.
QueryKeysUnique ==
  \A q \in QueryIds :
    Aggregated(q) =>
      /\ \A j, k \in Requests(q) :
           queries[q].methods[j] = queries[q].methods[k] => j = k
      /\ Len(queries[q].result.data) = Len(queries[q].children)

\* C7: partial failure. An aggregated query returns data that maps the key
\* of every request that succeeded to its data and the key of every request
\* that failed to nothing, and errors lists the error of every failed
\* request, one each, in request order.
RECURSIVE ErrorsFrom(_, _)
ErrorsFrom(q, k) ==
  IF k > Len(queries[q].children) THEN <<>>
  ELSE (IF Answer(q, k).error # NoError THEN <<Answer(q, k).error>> ELSE <<>>)
       \o ErrorsFrom(q, k + 1)

QueryPartialFailure ==
  \A q \in QueryIds :
    (queries[q].pc = "done" /\ queries[q].children # <<>>) =>
      /\ queries[q].result.hasData
      /\ \A k \in Requests(q) :
           ObjGet(queries[q].result.data, queries[q].methods[k]) = Answer(q, k).data
      /\ queries[q].result.hasErrors = (ErrorsFrom(q, 1) # <<>>)
      /\ queries[q].result.errors = ErrorsFrom(q, 1)

\* C8: a Uri that no redirect rule matches resolves to UnresolvedUriError: an
\* invoke of it is never dispatched to a backend, and it completes with that
\* error and no data.
UnmatchedUriIsUnresolved ==
  \A i \in TaskIds :
    (tasks[i].uri \in Uris /\ NoRule(tasks[i].client, tasks[i].uri)) =>
      /\ tasks[i].pc \in {"resolving", "done"}
      /\ tasks[i].api = 0 /\ tasks[i].ctx = None
      /\ apiCache[tasks[i].client][tasks[i].uri] = 0
      /\ Done(i) => tasks[i].result =
                      InvokeResult(NoData, Err("UnresolvedUriError", i))

UnmatchedUriIsUnresolvedWitness ==
  \E i \in TaskIds :
    /\ tasks[i].uri = "D" /\ Done(i)
    /\ tasks[i].result.error.name = "UnresolvedUriError"

\* C9: resolution terminates. Every hop of the walk visits a Uri it has not
\* visited, the hops number at most the rules of the table, and the walk ends
\* with an implementation, UnresolvedUriError or RedirectCycleError; the
\* chain A -> B -> A ends with RedirectCycleError.
CycleAB == <<Rule("A", "B"), Rule("B", "A")>>

ResolutionTerminates ==
  /\ walk.hops <= Len(walk.table)
  /\ Cardinality(walk.visited) = walk.hops + 1
  /\ walk.status \in {"walking", "impl", "error"}
  /\ walk.status = "impl" => walk.kind \in Factories
  /\ walk.status = "error" =>
       walk.err \in {"UnresolvedUriError", "RedirectCycleError"}
  /\ (walk.table = CycleAB /\ walk.input \in {"A", "B"}
      /\ walk.status # "walking") =>
       walk.err = "RedirectCycleError"

ResolutionTerminatesWitness ==
  /\ walk.table = CycleAB /\ walk.input = "A"
  /\ walk.status = "error" /\ walk.err = "RedirectCycleError"
  /\ walk.hops = 1

\* C10: a sub-invocation re-enters the same client. The backend is handed
\* the client that invoked it, and the nested call runs on that client. No
\* call waits for anything but the completion of a call it issued itself (a
\* later call), so the calls that wait form no cycle and the latest call that
\* has not completed can always take its next step. The backend resumes with
\* exactly the result the nested call completed with.
Waits(i) ==
  CASE tasks[i].pc = "resolving" -> {}     \* for the resolver only
    [] tasks[i].pc = "invoking"  -> {}     \* for the backend only
    [] tasks[i].pc = "subcall"   -> {tasks[i].sub}
    [] tasks[i].pc = "done"      -> {}
    [] OTHER                     -> {i}    \* stuck

NestedCallReentersClient ==
  \A i \in TaskIds :
    /\ tasks[i].ctx # None => tasks[i].ctx = tasks[i].client
    /\ tasks[i].parent # 0 =>
         /\ tasks[i].client = tasks[tasks[i].parent].client
         /\ tasks[tasks[i].parent].sub = i
    /\ \A j \in Waits(i) : j \in TaskIds /\ j > i /\ tasks[j].parent = i
    /\ (tasks[i].sub # 0 /\ tasks[i].pc # "subcall") =>
         /\ Done(tasks[i].sub)
         /\ tasks[i].subResult = tasks[tasks[i].sub].result

\* A backend invoked for a Uri has issued a sub-invocation of the same Uri
\* while its own invocation was in progress, and has resumed with its data.
NestedCallReentersClientWitness ==
  \E i \in TaskIds :
    /\ tasks[i].pc = "invoking" /\ tasks[i].sub # 0
    /\ tasks[tasks[i].sub].uri = tasks[i].uri
    /\ tasks[tasks[i].sub].api = tasks[i].api
    /\ tasks[i].subResult = InvokeResult(Data(tasks[i].sub), NoError)

\* C11: a client's redirect list is the sanitized redirects its constructor
\* was given, in their order, followed by the default redirects; so for a Uri
\* that a user rule matches the first match is a user rule, and an
\* implementation built at such a Uri is the one the user rule names.
UserPart(c) == sanitizeUriRedirects(config[c])

UserRedirectsFirst ==
  \A c \in Clients :
    /\ Len(redirects[c]) = Len(UserPart(c)) + Len(getDefaultRedirects)
    /\ \A k \in 1..Len(UserPart(c)) : redirects[c][k] = UserPart(c)[k]
    /\ \A k \in 1..Len(getDefaultRedirects) :
         redirects[c][Len(UserPart(c)) + k] = getDefaultRedirects[k]
    /\ \A u \in Uris :
         FirstMatch(UserPart(c), u, 1) # 0 =>
           FirstMatch(redirects[c], u, 1) = FirstMatch(UserPart(c), u, 1)
    /\ \A a \in apis :
         (a.client = c /\ FirstMatch(UserPart(c), a.at, 1) # 0) =>
           a.kind = UserPart(c)[FirstMatch(UserPart(c), a.at, 1)].to

\* A client given a rule that binds C to the sandboxed-module factory, with
\* a duplicate after it, has built the sandboxed module for C, not the
\* default plugin.
UserRedirectsFirstWitness ==
  \E c \in Clients :
    /\ config[c] = <<Rule("C", "wasm"), Rule("C", "B")>>
    /\ redirects[c] = <<Rule("C", "wasm"), Rule("C", "plugin")>>
    /\ \E a \in apis : a.client = c /\ a.at = "C" /\ a.kind = "wasm"

RedirectsImmutable == [][redirects' = redirects]_vars

\* Both clients have resolved and cached implementations, a nested call has
\* completed, and each table is still what its constructor built.
RedirectsImmutableWitness ==
  /\ \A c \in Clients : \E u \in Uris : apiCache[c][u] # 0
  /\ \E i \in TaskIds : tasks[i].parent # 0 /\ Done(i)
  /\ redirects = [c \in Clients |-> constructor(ClientConfig[c])]

\* C14: the cache memoizes and never evicts. It starts empty; a key that is
\* in it stays in it; and a call that starts when its Uri is cached is
\* dispatched at once to the cached instance: it does not enter the resolver
\* and no implementation is built.
CacheEmpty == \A c \in Clients, u \in Uris : apiCache[c][u] = 0

CacheMemoizes ==
  /\ CacheEmpty
  /\ [][/\ \A c \in Clients, u \in Uris :
            apiCache[c][u] # 0 => apiCache'[c][u] # 0
        /\ \A i \in (1..Len(tasks')) \ TaskIds :
            (/\ tasks'[i].uri \in Uris
             /\ apiCache[tasks'[i].client][tasks'[i].uri] # 0) =>
              /\ tasks'[i].pc = "invoking"
              /\ tasks'[i].api = apiCache[tasks'[i].client][tasks'[i].uri]
              /\ apis' = apis /\ apiCache' = apiCache]_vars

\* A call that started after another call's load of the same Uri had
\* completed was dispatched to that call's instance and has completed, and
\* the cache of its client holds two keys.
CacheMemoizesWitness ==
  \E i, j \in TaskIds :
    /\ i < j /\ tasks[j].api = i /\ tasks[i].api = i
    /\ tasks[i].client = tasks[j].client /\ tasks[i].uri = tasks[j].uri
    /\ apiCache[tasks[j].client][tasks[j].uri] = i
    /\ Done(j) /\ tasks[j].result.data # NoData
    /\ \E u \in Uris : u # tasks[j].uri /\ apiCache[tasks[j].client][u] # 0

\* C15: query runs its requests concurrently. From the moment it waits,
\* every invocation of the document has been started; an invocation that has
\* completed, with data or with an error, has been collected in its slot
\* whatever the state of the others, and none ended by throwing; and query
\* has aggregated only when all of them have completed.
Started(i) == i \in TaskIds /\ tasks[i].pc \in {"resolving", "invoking", "done"}

QueryRunsConcurrently ==
  \A q \in QueryIds :
    queries[q].raised = NoError =>
      /\ queries[q].pc \in {"waiting", "done"}
      /\ Len(queries[q].children) = Len(queries[q].invocations)
      /\ Len(queries[q].children) >= 1
      /\ \A k \in 1..Len(queries[q].children) :
           LET i == queries[q].children[k] IN
           /\ Started(i) /\ tasks[i].query = q
           /\ Done(i) <=> queries[q].invocations[k].settled
           /\ Done(i) => queries[q].invocations[k].result = tasks[i].result
           /\ queries[q].pc = "done" => Done(i)

\* A query has aggregated three invocations of which a later one completed
\* before an earlier one, one failed and another returned data.
QueryRunsConcurrentlyWitness ==
  \E q \in QueryIds :
    /\ queries[q].pc = "done" /\ queries[q].result.hasData
    /\ queries[q].outOfOrder
    /\ Len(queries[q].children) = 3
    /\ \E j, k \in 1..3 :
         /\ queries[q].invocations[j].result.error # NoError
         /\ queries[q].invocations[k].result.data # NoData

\* C16: each client owns its cache and its redirect table. A step of a call
\* on one client leaves the cache and the redirects of every other client
\* as they were, and a call is only ever dispatched to an implementation
\* that its own client resolved: a Uri loaded on two clients is resolved by
\* each of them.
OwnInstance(i) ==
  tasks[i].api # 0 =>
    \E a \in apis : /\ a.id = tasks[i].api
                    /\ a.client = tasks[i].client
                    /\ a.uri = tasks[i].uri

ClientsIndependent ==
  /\ [](\A i \in TaskIds : OwnInstance(i))
  /\ [][\A i \in TaskIds :
          tasks'[i] # tasks[i] =>
            \A c \in Clients \ {tasks[i].client} :
              apiCache'[c] = apiCache[c] /\ redirects'[c] = redirects[c]]_vars

\* C has been loaded once on each client: each cache holds its own
\* instance, c1's the plugin and c2's the sandboxed module, and the other
\* entries of the two caches differ.
ClientsIndependentWitness ==
  /\ apiCache["c1"]["C"] # 0 /\ apiCache["c2"]["C"] # 0
  /\ apiCache["c1"]["C"] # apiCache["c2"]["C"]
  /\ \A c \in Clients :
       Cardinality({a \in apis : a.client = c /\ a.uri = "C"}) = 1
  /\ \E a, b \in apis : /\ a.client = "c1" /\ a.kind = "plugin"
                        /\ b.client = "c2" /\ b.kind = "wasm"

\* C17: a failed resolution leaves the cache as it was. An entry of the cache
\* is an implementation that a resolution of that Uri on that client
\* returned; the Uri of a call whose resolution failed has no entry; and a
\* later call of that Uri goes to the resolver again and fails with an error
\* of its own, not with a remembered one.
ResolutionErrors == {"UnresolvedUriError", "RedirectCycleError"}

FailedResolution(i) == Done(i) /\ tasks[i].raised.name \in ResolutionErrors

FailedResolutionNotCached ==
  /\ \A c \in Clients, u \in Uris :
       apiCache[c][u] # 0 =>
         \E a \in apis : /\ a.id = apiCache[c][u] /\ a.client = c /\ a.uri = u
                         /\ a.kind \in Factories
  /\ \A i \in TaskIds :
       FailedResolution(i) =>
         /\ apiCache[tasks[i].client][tasks[i].uri] = 0
         /\ \A j \in TaskIds :
              (/\ i < j /\ tasks[j].client = tasks[i].client
               /\ tasks[j].uri = tasks[i].uri) =>
                /\ tasks[j].api = 0
                /\ \/ tasks[j].pc = "resolving"
                   \/ /\ FailedResolution(j)
                      /\ tasks[j].result.error = Err(tasks[i].raised.name, j)

\* On a client whose cache holds an entry, a Uri without a rule was invoked
\* again after its first resolution had failed; both calls failed, each with
\* its own error, and the Uri has no entry.
FailedResolutionNotCachedWitness ==
  \E i, j \in TaskIds :
    /\ i < j /\ FailedResolution(i) /\ FailedResolution(j)
    /\ tasks[i].client = tasks[j].client /\ tasks[i].uri = tasks[j].uri
    /\ tasks[i].result.error # tasks[j].result.error
    /\ apiCache[tasks[i].client][tasks[i].uri] = 0
    /\ \E u \in Uris : apiCache[tasks[i].client][u] # 0

\* C18: query never raises. When building the document or compiling it into
\* invocations fails, query completes with a result whose errors are that
\* failure and whose data is absent; it has started no invocation, and the
\* step left the calls, the cache and the implementations as they were.
FailedEarly(q) ==
  /\ q.pc = "done"
  /\ ~q.result.hasData
  /\ q.result.hasErrors /\ q.result.errors = <<q.raised>>
  /\ q.children = <<>> /\ q.invocations = <<>>

QueryNeverRaises ==
  /\ [](\A q \in QueryIds :
          /\ queries[q].pc # "threw"
          /\ queries[q].raised # NoError =>
               /\ FailedEarly(queries[q])
               /\ \A i \in TaskIds : tasks[i].query # q)
  /\ [][\A q \in (1..Len(queries')) \ QueryIds :
          queries'[q].raised # NoError =>
            tasks' = tasks /\ apiCache' = apiCache /\ apis' = apis]_vars

\* A query of a malformed document has completed with the syntax error as
\* its only error, no data, and no call made.
QueryNeverRaisesWitness ==
  \E q \in QueryIds :
    /\ queries[q].raised = Err("QuerySyntaxError", 0)
    /\ queries[q].result = QueryResult(FALSE, <<>>, TRUE, <<queries[q].raised>>)
    /\ \A i \in TaskIds : tasks[i].query # q
====
